---- MODULE Spec2Model ----
(***************************************************************************)
(* Model of scipy/io/matlab/mio5_utils.pyx: the MAT5 variable reader       *)
(* (VarReader5).  The reader consumes a byte stream through a cursor; its  *)
(* operations are the tag codec, the element readers, the header decoder   *)
(* and the recursive array dispatcher.                                     *)
(*                                                                         *)
(* A 32-bit word is a 4-tuple of bytes, least significant byte first, so   *)
(* that shifts and masks are computed on all 32 bits.                      *)
(***************************************************************************)
EXTENDS Integers, Sequences, FiniteSets, TLC

VARIABLES
    sys_is_le,          \* byte order of the machine running the reader
    is_swapped,         \* VarReader5.is_swapped
    struct_as_record,   \* VarReader5.struct_as_record
    stream,             \* unread bytes of a stream given byte by byte
    pos,                \* cursor of cstream, in bytes
    last,               \* what the last operation returned or raised
    header,             \* the VarHeader5 returned by the last read_header
    stack,              \* container reads (read_cells, read_struct) in progress
    ncalls,             \* read_mi_matrix calls made for the current variable
    faults              \* format faults met while reading the current variable

vars == <<sys_is_le, is_swapped, struct_as_record, stream, pos, last, header,
          stack, ncalls, faults>>

----------------------------------------------------------------------------
(* Matlab data type codes and class codes.                                 *)
miINT8 == 1
miUINT8 == 2
miINT16 == 3
miUINT16 == 4
miINT32 == 5
miUINT32 == 6
miSINGLE == 7
miDOUBLE == 9
miINT64 == 12
miUINT64 == 13
miMATRIX == 14
miCOMPRESSED == 15
miUTF8 == 16
miUTF16 == 17
miUTF32 == 18

mxCELL_CLASS == 1
mxSTRUCT_CLASS == 2
mxOBJECT_CLASS == 3
mxCHAR_CLASS == 4
mxSPARSE_CLASS == 5
mxDOUBLE_CLASS == 6
mxSINGLE_CLASS == 7
mxINT8_CLASS == 8
mxUINT8_CLASS == 9
mxINT16_CLASS == 10
mxUINT16_CLASS == 11
mxINT32_CLASS == 12
mxUINT32_CLASS == 13
mxINT64_CLASS == 14
mxUINT64_CLASS == 15
mxFUNCTION_CLASS == 16
mxOPAQUE_CLASS == 17
mxOBJECT_CLASS_FROM_MATRIX_H == 18

_MAT_MAXDIMS == 32

----------------------------------------------------------------------------
(* Bit operations on bytes (0..255) and on 32-bit words.                    *)
RECURSIVE BitAnd(_, _)
BitAnd(a, b) ==
    IF a = 0 \/ b = 0 THEN 0
    ELSE IF a = 255 THEN b
    ELSE IF b = 255 THEN a
    ELSE (a % 2) * (b % 2) + 2 * BitAnd(a \div 2, b \div 2)

RECURSIVE BitOr(_, _)
BitOr(a, b) ==
    IF a = 0 THEN b
    ELSE IF b = 0 THEN a
    ELSE (IF a % 2 = 1 \/ b % 2 = 1 THEN 1 ELSE 0) + 2 * BitOr(a \div 2, b \div 2)

U4And(x, y) ==
    <<BitAnd(x[1], y[1]), BitAnd(x[2], y[2]), BitAnd(x[3], y[3]), BitAnd(x[4], y[4])>>
U4Or(x, y) ==
    <<BitOr(x[1], y[1]), BitOr(x[2], y[2]), BitOr(x[3], y[3]), BitOr(x[4], y[4])>>
\* x << 8n and x >> 8n on a uint32
ByteAt(x, i) == IF i >= 1 /\ i <= 4 THEN x[i] ELSE 0
U4Shl(x, n) == <<ByteAt(x, 1 - n), ByteAt(x, 2 - n), ByteAt(x, 3 - n), ByteAt(x, 4 - n)>>
U4Shr(x, n) == <<ByteAt(x, 1 + n), ByteAt(x, 2 + n), ByteAt(x, 3 + n), ByteAt(x, 4 + n)>>

U4Zero == <<0, 0, 0, 0>>
Mask_ff0000 == <<0, 0, 255, 0>>
Mask_ff00 == <<0, 255, 0, 0>>

\* the word with a value below 2^16
U4(n) == <<n % 256, (n \div 256) % 256, 0, 0>>
\* the word [hi:16][lo:16]
U4HiLo(hi, lo) == <<lo % 256, (lo \div 256) % 256, hi % 256, (hi \div 256) % 256>>
Lo16(w) == w[1] + 256 * w[2]
Hi16(w) == w[3] + 256 * w[4]
U4Val(w) == Lo16(w) + 65536 * Hi16(w)

\* the swap without the masks on the two middle bytes
byteswap_u4_unmasked(u4) ==
    U4Or(U4Or(U4Or(U4Shl(u4, 3), U4Shl(u4, 1)), U4Shr(u4, 1)), U4Shr(u4, 3))

byteswap_u4(u4) ==
    U4Or(U4Or(U4Or(U4Shl(u4, 3),
                   U4And(U4Shl(u4, 1), Mask_ff0000)),
              U4And(U4Shr(u4, 1), Mask_ff00)),
         U4Shr(u4, 3))

\* a uint32 read from (written to) four bytes of memory by this machine
\* v bound to a name in Body
With(v, Body(_)) == Body(v)

\* a word of the stream in the byte order of the reader
Dec(w, swapped) == IF swapped THEN byteswap_u4(w) ELSE w

LoadU4(b, le) == IF le THEN <<b[1], b[2], b[3], b[4]>> ELSE <<b[4], b[3], b[2], b[1]>>
StoreU4(w, le) == IF le THEN <<w[1], w[2], w[3], w[4]>> ELSE <<w[4], w[3], w[2], w[1]>>

----------------------------------------------------------------------------
(* Tag codec.                                                              *)

\* the test with the boundary one too low
SdeTooLong_ge4(byte_count_sde) == byte_count_sde >= 4

\* the SDE byte count above which cread_tag raises
SdeTooLong(byte_count_sde) == byte_count_sde > 4

\* cread_tag with the two uint16 halves of an SDE tag exchanged
cread_tag_halves(u4s1, u4s2, swapped) ==
    With(IF swapped THEN byteswap_u4(u4s1) ELSE u4s1, LAMBDA mdtype :
    With(Lo16(mdtype), LAMBDA byte_count_sde :
        IF Hi16(mdtype) # 0
        THEN IF SdeTooLong(byte_count_sde)
             THEN [res |-> -1, mdtype |-> 0, byte_count |-> 0, data |-> U4Zero]
             ELSE [res |-> 2, mdtype |-> Hi16(mdtype),
                   byte_count |-> byte_count_sde, data |-> u4s2]
        ELSE [res |-> 1, mdtype |-> U4Val(mdtype),
              byte_count |-> U4Val(IF swapped THEN byteswap_u4(u4s2) ELSE u4s2),
              data |-> U4Zero]))

\* cread_tag on the two words read from the stream: res is the return value
\* (1 full format, 2 SDE, -1 with ValueError raised); on -1 the three output
\* locations are left as they were (their fields here are not to be read).
cread_tag(u4s1, u4s2, swapped) ==
    With(IF swapped THEN byteswap_u4(u4s1) ELSE u4s1, LAMBDA mdtype :
    With(Hi16(mdtype), LAMBDA byte_count_sde :
        IF byte_count_sde # 0
        THEN IF SdeTooLong(byte_count_sde)
             THEN [res |-> -1, mdtype |-> 0, byte_count |-> 0, data |-> U4Zero]
             ELSE [res |-> 2, mdtype |-> Lo16(mdtype),
                   byte_count |-> byte_count_sde, data |-> u4s2]
        ELSE [res |-> 1, mdtype |-> U4Val(mdtype),
              byte_count |-> U4Val(IF swapped THEN byteswap_u4(u4s2) ELSE u4s2),
              data |-> U4Zero]))

None == "None"
NoHeader == [mclass |-> -1]

\* read_tag on the next 8 bytes of the stream
read_tag ==
    /\ Len(stream) >= 8
    /\ LET u4s1 == LoadU4(SubSeq(stream, 1, 4), sys_is_le)
           u4s2 == LoadU4(SubSeq(stream, 5, 8), sys_is_le)
           t == cread_tag(u4s1, u4s2, is_swapped)
           tag_ptr == StoreU4(t.data, sys_is_le)
       IN  last' = IF t.res = -1
                   THEN [op |-> "read_tag", raw |-> SubSeq(stream, 1, 8),
                         outcome |-> "ValueError"]
                   ELSE [op |-> "read_tag", raw |-> SubSeq(stream, 1, 8),
                         outcome |-> "ok", tag_res |-> t.res,
                         mdtype |-> t.mdtype, byte_count |-> t.byte_count,
                         tag_data |-> IF t.res = 2
                                      THEN SubSeq(tag_ptr, 1, t.byte_count)
                                      ELSE None]
    /\ stream' = SubSeq(stream, 9, Len(stream))
    /\ pos' = pos + 8
    /\ UNCHANGED <<sys_is_le, is_swapped, struct_as_record, header, stack, ncalls, faults>>

\* bytes a tag is drawn from
TagBytes == {0, 1, 4, 5}

InitTag ==
    /\ sys_is_le \in BOOLEAN
    /\ is_swapped \in BOOLEAN
    /\ struct_as_record = TRUE
    /\ stream \in [1..8 -> TagBytes]
    /\ pos = 0
    /\ last = [op |-> "init"]
    /\ header = NoHeader
    /\ stack = <<>>
    /\ ncalls = 0
    /\ faults = {}

NextTag == read_tag

SpecTag == InitTag /\ [][NextTag]_vars

----------------------------------------------------------------------------
(* Element readers.  The words of a tag and the bytes after it are inputs: *)
(* the stream is whatever the file holds at the cursor.                    *)

\* bounds of the inputs
MaxPos == 24
MaxByteCount == 9
MaxSdeField == 5

\* a word as the file of the declared byte order stores it
Enc(w) == IF is_swapped THEN byteswap_u4(w) ELSE w

\* seek to next 64-bit boundary, skipping the seek altogether when aligned
PadAlways(byte_count) == 8 - (byte_count % 8)

\* the seek made from the start of the stream (whence 0) instead of from the
\* cursor: the cursor's move is then the target less where it stood
Pad_absolute(byte_count) ==
    LET mod8 == byte_count % 8
    IN  IF mod8 # 0 THEN (8 - mod8) - (pos + 8 + byte_count) ELSE 0

Pad(byte_count) ==
    LET mod8 == byte_count % 8
    IN  IF mod8 # 0 THEN 8 - mod8 ELSE 0

\* read_element on a tag and the bytes after it: what it returns or raises,
\* the payload bytes it read from the stream (nread) and the cursor's advance
read_element(u4s1, u4s2, body, swapped, le) ==
    With(cread_tag(u4s1, u4s2, swapped), LAMBDA t :
        IF t.res = -1
        THEN [outcome |-> "ValueError", adv |-> 8]
        ELSE IF t.res = 1
        THEN [outcome |-> "ok", tag_res |-> 1, mdtype |-> t.mdtype,
              byte_count |-> t.byte_count,
              data |-> SubSeq(body, 1, t.byte_count),
              nread |-> t.byte_count,
              adv |-> 8 + t.byte_count + Pad(t.byte_count)]
        ELSE [outcome |-> "ok", tag_res |-> 2, mdtype |-> t.mdtype,
              byte_count |-> t.byte_count,
              data |-> SubSeq(StoreU4(t.data, le), 1, t.byte_count),
              nread |-> 0,
              adv |-> 8])

\* read_element_into on a tag and the words after it; the destination is an
\* array of 32-bit words.  The function is void with no except clause: an
\* exception of cread_tag is reported as unraisable and the function returns,
\* having set neither *mdtype_ptr nor *byte_count_ptr nor the destination
\* (set = FALSE).  `written` is the number of bytes stored at the destination.
read_element_into(u4s1, u4s2, words, swapped) ==
    With(cread_tag(u4s1, u4s2, swapped), LAMBDA t :
        IF t.res = -1
        THEN [set |-> FALSE, adv |-> 8, written |-> 0, dest |-> <<>>]
        ELSE IF t.res = 1
        THEN [set |-> TRUE, tag_res |-> 1, mdtype |-> t.mdtype,
              byte_count |-> t.byte_count,
              dest |-> IF t.byte_count = 0 THEN <<U4Zero>>
                       ELSE SubSeq(words, 1, (t.byte_count + 3) \div 4),
              written |-> IF t.byte_count < 4 THEN 4 ELSE t.byte_count,
              nread |-> t.byte_count,
              adv |-> 8 + t.byte_count + Pad(t.byte_count)]
        ELSE [set |-> TRUE, tag_res |-> 2, mdtype |-> t.mdtype,
              byte_count |-> t.byte_count,
              dest |-> <<t.data>>,
              written |-> 4,
              nread |-> 0,
              adv |-> 8])

\* the tags the element readers are given
ElemTypes == {miINT8, miINT32}
TagWord1 == {U4(t) : t \in ElemTypes}
            \cup {U4HiLo(n, t) : n \in 1..MaxSdeField, t \in ElemTypes}
TagWord2(w1) == IF Hi16(w1) = 0
                THEN {U4(n) : n \in 0..MaxByteCount}
                ELSE {U4Zero, <<1, 2, 3, 4>>}
BodyBytes == {0, 1}
Bodies(n) == {[i \in 1..n |-> b] : b \in BodyBytes}
BodyWords(n) == {[i \in 1..((n + 3) \div 4) |-> Enc(U4(v))] : v \in BodyBytes}

\* byte count of the element read before this one (-1: none)
PrevByteCount ==
    IF last.op \in {"read_element", "read_element_into"} /\ last.outcome = "ok"
    THEN last.byte_count ELSE -1

read_element_call ==
    /\ pos < MaxPos
    /\ \E w1 \in TagWord1 : \E w2 \in TagWord2(w1) :
         \E u4s1 \in {Enc(w1)}, u4s2 \in {Enc(w2)} :
         \E t \in {cread_tag(u4s1, u4s2, is_swapped)} :
             \E body \in Bodies(IF t.res = 1 THEN t.byte_count ELSE 0) :
               \E e \in {read_element(u4s1, u4s2, body, is_swapped, sys_is_le)} :
                   /\ pos' = pos + e.adv
                   /\ last' = e @@
                              [op |-> "read_element", start |-> pos,
                               sde_field |-> Hi16(w1),
                               tag_bytes |-> StoreU4(u4s2, sys_is_le),
                               prev |-> PrevByteCount]
    /\ UNCHANGED <<sys_is_le, is_swapped, struct_as_record, stream, header, stack,
                   ncalls, faults>>

read_element_into_call ==
    /\ pos < MaxPos
    /\ \E w1 \in TagWord1 : \E w2 \in TagWord2(w1) :
         \E u4s1 \in {Enc(w1)}, u4s2 \in {Enc(w2)} :
         \E t \in {cread_tag(u4s1, u4s2, is_swapped)} :
             \E words \in BodyWords(IF t.res = 1 THEN t.byte_count ELSE 0) :
               \E e \in {read_element_into(u4s1, u4s2, words, is_swapped)} :
                   /\ pos' = pos + e.adv
                   /\ last' = e @@
                              [op |-> "read_element_into", start |-> pos,
                               outcome |-> IF e.set THEN "ok" ELSE "unraisable",
                               sde_field |-> Hi16(w1),
                               prev |-> PrevByteCount]
    /\ UNCHANGED <<sys_is_le, is_swapped, struct_as_record, stream, header, stack,
                   ncalls, faults>>

InitElem ==
    /\ sys_is_le \in BOOLEAN
    /\ is_swapped \in BOOLEAN
    /\ struct_as_record = TRUE
    /\ stream = <<>>
    /\ pos = 0
    /\ last = [op |-> "init"]
    /\ header = NoHeader
    /\ stack = <<>>
    /\ ncalls = 0
    /\ faults = {}

NextElem ==
    \/ read_element_call
    \/ read_element_into_call

SpecElem == InitElem /\ [][NextElem]_vars

----------------------------------------------------------------------------
(* Typed element readers and the header decoder.  An element given to an   *)
(* operator is [w1, w2, body]: the two words of its tag as loaded from the *)
(* stream, and what follows the tag (bytes for read_element, 32-bit words  *)
(* for read_element_into).                                                 *)

Max(a, b) == IF a >= b THEN a ELSE b

\* a reader that takes an element of any type
WrongTypeNever(mdtype, wanted) == FALSE

\* the type tests of read_into_int32s, read_int8_string and read_mi_matrix
WrongType(mdtype, wanted) == mdtype # wanted

\* read_into_int32s: mem0 is what the destination held before the call;
\* garbage is what the locals mdtype and byte_count hold when
\* read_element_into returns without having set them.
read_into_int32s(el, mem0, garbage, swapped) ==
    With(read_element_into(el.w1, el.w2, el.body, swapped), LAMBDA e :
    With(IF e.set THEN e.mdtype ELSE garbage.mdtype, LAMBDA mdtype :
    With((IF e.set THEN e.byte_count ELSE garbage.byte_count) \div 4, LAMBDA n_ints :
    With([adv |-> e.adv, written |-> e.written, sde_fault |-> ~e.set,
          mismatch |-> e.set /\ e.mdtype # miINT32], LAMBDA base :
        IF WrongType(mdtype, miINT32)
        THEN base @@ [outcome |-> "TypeError"]
        ELSE base @@ [outcome |-> "ok", n_ints |-> n_ints,
                      ints |-> [i \in 1..n_ints |->
                                  U4Val(Dec(IF i <= Len(e.dest) THEN e.dest[i]
                                            ELSE mem0, swapped))]]))))

read_int8_string(el, swapped, le) ==
    With(read_element(el.w1, el.w2, el.body, swapped, le), LAMBDA e :
    With([adv |-> e.adv, sde_fault |-> e.outcome # "ok",
          mismatch |-> e.outcome = "ok" /\ e.mdtype # miINT8], LAMBDA base :
        IF e.outcome # "ok"
        THEN base @@ [outcome |-> e.outcome]
        ELSE IF WrongType(e.mdtype, miINT8)
        THEN base @@ [outcome |-> "TypeError"]
        ELSE base @@ [outcome |-> "ok", data |-> e.data]))

cread_full_tag(u4s1, u4s2, swapped) ==
    IF swapped
    THEN [mdtype |-> U4Val(byteswap_u4(u4s1)), byte_count |-> U4Val(byteswap_u4(u4s2))]
    ELSE [mdtype |-> U4Val(u4s1), byte_count |-> U4Val(u4s2)]

Mask_ff == <<255, 0, 0, 0>>
\* the bit below the one asked for
FlagBit_below(flags_class, n) ==
    (flags_class[((n - 1) \div 8) + 1] \div (2 ^ ((n - 1) % 8))) % 2

\* (flags_class >> n) & 1, on the bytes of the word
FlagBit(flags_class, n) == (flags_class[(n \div 8) + 1] \div (2 ^ (n % 8))) % 2

\* read_header after the 8 discarded bytes: the flags and nzmax words, the
\* dimensions element and the name element.  name is read only when the
\* dimensions were.
read_header(flags, nzmax_word, dims_el, garbage, name_el, swapped, le) ==
    With(Dec(flags, swapped), LAMBDA flags_class :
    With(read_into_int32s(dims_el, U4Zero, garbage, swapped), LAMBDA d :
    With(read_int8_string(name_el, swapped, le), LAMBDA nm :
    With((IF d.sde_fault THEN {"sde"} ELSE {})
         \cup (IF d.outcome = "ok" /\ d.n_ints > _MAT_MAXDIMS
               THEN {"ndims"} ELSE {}), LAMBDA dfaults :
        IF d.outcome # "ok"
        THEN [outcome |-> d.outcome, adv |-> 16 + d.adv, faults |-> dfaults,
              mismatch |-> d.mismatch, written |-> d.written]
        ELSE IF d.n_ints > _MAT_MAXDIMS
        THEN [outcome |-> "ValueError", adv |-> 16 + d.adv, faults |-> dfaults,
              mismatch |-> d.mismatch, written |-> d.written]
        ELSE IF nm.outcome # "ok"
        THEN [outcome |-> nm.outcome, adv |-> 16 + d.adv + nm.adv,
              faults |-> dfaults \cup (IF nm.sde_fault THEN {"sde"} ELSE {}),
              mismatch |-> d.mismatch \/ nm.mismatch, written |-> d.written]
        ELSE [outcome |-> "ok", adv |-> 16 + d.adv + nm.adv,
              faults |-> dfaults, mismatch |-> d.mismatch \/ nm.mismatch,
              written |-> d.written,
              header |-> [name |-> nm.data,
                          mclass |-> U4Val(U4And(flags_class, Mask_ff)),
                          dims |-> d.ints,
                          n_dims |-> d.n_ints,
                          is_complex |-> FlagBit(flags_class, 11),
                          is_logical |-> FlagBit(flags_class, 9),
                          is_global |-> FlagBit(flags_class, 10),
                          nzmax |-> Dec(nzmax_word, swapped)]]))))

\* size_from_header
RECURSIVE Product(_)
Product(dims) == IF dims = <<>> THEN 1 ELSE Head(dims) * Product(Tail(dims))
size_from_header(h) == Product(h.dims)

----------------------------------------------------------------------------
(* Class readers without nested matrices.                                  *)

\* itemsize of the dtype that preader.dtypes gives for a data type code
ItemSize(mdtype) ==
    CASE mdtype \in {miINT8, miUINT8, miUTF8} -> 1
      [] mdtype \in {miINT16, miUINT16, miUTF16} -> 2
      [] mdtype \in {miINT32, miUINT32, miSINGLE, miUTF32} -> 4
      [] OTHER -> 8

\* names of the dtypes that preader.class_dtypes gives for the numeric classes
class_dtypes(mc) ==
    CASE mc = mxDOUBLE_CLASS -> "f8" [] mc = mxSINGLE_CLASS -> "f4"
      [] mc = mxINT8_CLASS -> "i1"   [] mc = mxUINT8_CLASS -> "u1"
      [] mc = mxINT16_CLASS -> "i2"  [] mc = mxUINT16_CLASS -> "u2"
      [] mc = mxINT32_CLASS -> "i4"  [] mc = mxUINT32_CLASS -> "u4"
      [] mc = mxINT64_CLASS -> "i8"  [] mc = mxUINT64_CLASS -> "u8"

\* self.bool_dtype: __new__ binds np.dtype('bool') to a local name, so the
\* attribute keeps the value a cdef object attribute starts with
bool_dtype == None

\* codecs of preader.codecs for the encoded character types (None: python
\* has no codec for it)
codecs(mdtype) ==
    CASE mdtype = miUTF8 -> "utf_8" [] mdtype = miUTF16 -> "utf_16"
      [] mdtype = miUTF32 -> None

NoArr == [kind |-> "None", shape |-> <<>>]

read_numeric(el, swapped, le) ==
    With(read_element(el.w1, el.w2, el.body, swapped, le), LAMBDA e :
        IF e.outcome # "ok"
        THEN [outcome |-> e.outcome, adv |-> e.adv, sde_fault |-> TRUE]
        ELSE [outcome |-> "ok", adv |-> e.adv, sde_fault |-> FALSE,
              mdtype |-> e.mdtype,
              el_count |-> e.byte_count \div ItemSize(e.mdtype)])

SdeFaults(r) == IF r.sde_fault THEN {"sde"} ELSE {}

\* read_real_complex: the elements read, then reshape(dims[::-1]).T, which
\* numpy refuses when the element count is not the product of the dims
read_real_complex(h, els, swapped, le) ==
    With(read_numeric(els[1], swapped, le), LAMBDA re :
    With(read_numeric(els[2], swapped, le), LAMBDA im :
        IF re.outcome # "ok"
        THEN [outcome |-> re.outcome, adv |-> re.adv, faults |-> SdeFaults(re)]
        ELSE IF h.is_complex # 0
        THEN IF im.outcome # "ok"
             THEN [outcome |-> im.outcome, adv |-> re.adv + im.adv,
                   faults |-> SdeFaults(im)]
             ELSE IF \/ (re.el_count # im.el_count /\ re.el_count # 1 /\ im.el_count # 1)
                     \/ (IF re.el_count = 1 THEN im.el_count ELSE re.el_count)
                            # size_from_header(h)
             THEN [outcome |-> "ValueError", adv |-> re.adv + im.adv, faults |-> {}]
             ELSE [outcome |-> "ok", adv |-> re.adv + im.adv, faults |-> {},
                   arr |-> [kind |-> "numeric", shape |-> h.dims]]
        ELSE IF re.el_count # size_from_header(h)
        THEN [outcome |-> "ValueError", adv |-> re.adv, faults |-> {}]
        ELSE [outcome |-> "ok", adv |-> re.adv, faults |-> {},
              arr |-> [kind |-> "numeric", shape |-> h.dims]]))

\* read_sparse: row indices, column pointers, values (and imaginary values),
\* then M, N = header.dims and the cut of the three arrays; the values of
\* the arrays are not kept here
read_sparse(h, els, swapped, le) ==
    With(read_numeric(els[1], swapped, le), LAMBDA rowind :
    With(read_numeric(els[2], swapped, le), LAMBDA indptr :
    With(read_numeric(els[3], swapped, le), LAMBDA data :
    With(read_numeric(els[4], swapped, le), LAMBDA data_j :
    With(rowind.adv + indptr.adv + data.adv
         + (IF h.is_complex # 0 THEN data_j.adv ELSE 0), LAMBDA adv :
        IF rowind.outcome # "ok"
        THEN [outcome |-> rowind.outcome, adv |-> rowind.adv, faults |-> {"sde"}]
        ELSE IF indptr.outcome # "ok"
        THEN [outcome |-> indptr.outcome, adv |-> rowind.adv + indptr.adv,
              faults |-> {"sde"}]
        ELSE IF data.outcome # "ok"
        THEN [outcome |-> data.outcome,
              adv |-> rowind.adv + indptr.adv + data.adv, faults |-> {"sde"}]
        ELSE IF h.is_complex # 0 /\ data_j.outcome # "ok"
        THEN [outcome |-> data_j.outcome, adv |-> adv, faults |-> {"sde"}]
        ELSE IF h.n_dims # 2
        THEN [outcome |-> "ValueError", adv |-> adv, faults |-> {}]
        ELSE IF indptr.el_count = 0
        THEN [outcome |-> "IndexError", adv |-> adv, faults |-> {}]
        ELSE [outcome |-> "ok", adv |-> adv, faults |-> {},
              arr |-> [kind |-> "sparse", shape |-> h.dims]])))))

\* read_char: one element, decoded by the codec of its type
read_char(h, els, swapped, le) ==
    With(read_element(els[1].w1, els[1].w2, els[1].body, swapped, le), LAMBDA e :
        IF e.outcome # "ok"
        THEN [outcome |-> e.outcome, adv |-> e.adv, faults |-> {"sde"}]
        ELSE IF e.mdtype \notin {miUINT16, miINT8, miUINT8, miUTF8, miUTF16, miUTF32}
        THEN [outcome |-> "ValueError", adv |-> e.adv, faults |-> {}]
        ELSE IF e.mdtype \in {miUTF8, miUTF16, miUTF32} /\ codecs(e.mdtype) = None
        THEN [outcome |-> "TypeError", adv |-> e.adv, faults |-> {}]
        ELSE IF Max(e.byte_count \div ItemSize(e.mdtype), 1) < size_from_header(h)
        THEN [outcome |-> "TypeError", adv |-> e.adv, faults |-> {}]
        ELSE [outcome |-> "ok", adv |-> e.adv, faults |-> {},
              arr |-> [kind |-> "char", shape |-> h.dims]])

NumericClasses == mxDOUBLE_CLASS..mxUINT64_CLASS
ContainerClasses == {mxCELL_CLASS, mxSTRUCT_CLASS, mxOBJECT_CLASS}

\* read_array_mdtype for the classes read without nested matrices.  For a
\* class no branch names, arr is returned without having been assigned:
\* unbound is what the build makes of that (None, or UnboundLocalError).
read_array_mdtype(h, els, unbound, swapped, le) ==
    IF h.mclass \in NumericClasses
    THEN read_real_complex(h, els, swapped, le)
         @@ [mat_dtype |-> IF h.is_logical # 0 THEN bool_dtype
                           ELSE class_dtypes(h.mclass)]
    ELSE IF h.mclass = mxSPARSE_CLASS
    THEN read_sparse(h, els, swapped, le) @@ [mat_dtype |-> None]
    ELSE IF h.mclass = mxCHAR_CLASS
    THEN read_char(h, els, swapped, le) @@ [mat_dtype |-> None]
    ELSE IF h.mclass = mxFUNCTION_CLASS
    THEN [outcome |-> "MatReadError", adv |-> 0, faults |-> {}]
    ELSE IF unbound = None
    THEN [outcome |-> "ok", adv |-> 0, faults |-> {}, arr |-> NoArr,
          mat_dtype |-> None]
    ELSE [outcome |-> unbound, adv |-> 0, faults |-> {}]

\* process_element is called unless the class is sparse
IsSparse(mclass) == mclass = mxSPARSE_CLASS

\* number of process_element calls on the way out of array_from_header and
\* read_mi_matrix
ProcessCalls(mclass) == IF IsSparse(mclass) THEN 0 ELSE 1

----------------------------------------------------------------------------
(* read_struct and read_cells.                                             *)

RECURSIVE CStringFrom(_, _)
\* PyString_FromString(n_ptr): the bytes up to the first NUL
CStringFrom(bytes, i) ==
    IF i > Len(bytes) \/ bytes[i] = 0 THEN <<>>
    ELSE <<bytes[i]>> \o CStringFrom(bytes, i + 1)

\* the part of read_struct (after the class name of an object is read by
\* read_array_mdtype) that reads the field names
read_struct_head(h, cn_el, nl_el, garbage, mem0, fn_el, swapped, le) ==
    With(read_int8_string(cn_el, swapped, le), LAMBDA cn :
    With(read_into_int32s(nl_el, mem0, garbage, swapped), LAMBDA nl :
    With(read_int8_string(fn_el, swapped, le), LAMBDA fn :
    With(IF h.mclass = mxOBJECT_CLASS THEN cn.adv ELSE 0, LAMBDA adv0 :
    With((IF nl.sde_fault THEN {"sde"} ELSE {})
         \cup (IF nl.outcome = "ok" /\ ~nl.sde_fault /\ nl.n_ints # 1
               THEN {"namelength"} ELSE {}), LAMBDA nlfaults :
        IF h.mclass = mxOBJECT_CLASS /\ cn.outcome # "ok"
        THEN [outcome |-> cn.outcome, adv |-> adv0, faults |-> SdeFaults(cn),
              mismatch |-> cn.mismatch, written |-> 0]
        ELSE IF nl.outcome # "ok"
        THEN [outcome |-> nl.outcome, adv |-> adv0 + nl.adv, faults |-> nlfaults,
              mismatch |-> nl.mismatch, written |-> nl.written]
        ELSE IF nl.n_ints # 1
        THEN [outcome |-> "ValueError", adv |-> adv0 + nl.adv, faults |-> nlfaults,
              mismatch |-> nl.mismatch, written |-> nl.written]
        ELSE IF fn.outcome # "ok"
        THEN [outcome |-> fn.outcome, adv |-> adv0 + nl.adv + fn.adv,
              faults |-> nlfaults \cup SdeFaults(fn),
              mismatch |-> fn.mismatch, written |-> nl.written]
        ELSE [outcome |-> "ok", adv |-> adv0 + nl.adv + fn.adv,
              faults |-> nlfaults, mismatch |-> nl.mismatch \/ fn.mismatch,
              written |-> nl.written,
              namelength |-> nl.ints[1],
              field_names |-> [k \in 1..(Len(fn.data) \div nl.ints[1]) |->
                                 CStringFrom(fn.data, (k - 1) * nl.ints[1] + 1)]])))))

\* the loops of read_struct run over the instances and, for each, over the
\* field names: the k-th nested read (from 0) fills this instance and field
SlotFieldMajor(k, n, length) == <<k % length, k \div length>>

Slot(k, n, length) == <<k \div n, k % n>>

\* a container read in progress
Frame(kind, h, entry, id, names) ==
    [kind |-> kind, mclass |-> h.mclass, entry |-> entry, id |-> id,
     dims |-> h.dims, length |-> size_from_header(h),
     n |-> IF kind = "cells" THEN 1 ELSE Len(names),
     names |-> names, calls |-> <<>>,
     inst |-> [i \in 1..size_from_header(h) |-> <<>>]]

FrameDone(f) == Len(f.calls) = f.length * f.n

\* the value of nested read `id` stored by the loop body
AddChild(f, id) ==
    LET k == Len(f.calls)
        s == Slot(k, f.n, f.length)
    IN  [f EXCEPT !.calls = Append(@, id),
                  !.inst[s[1] + 1] =
                      IF f.kind = "cells" THEN <<id>>
                      ELSE (f.names[s[2] + 1] :> id) @@ @]

----------------------------------------------------------------------------
(* Inputs of the variable reader.                                          *)

MaxClass == 18
MaxLen == 2
MaxCalls == 4
MaxStart == 0

FullEl(t, n, body) == [w1 |-> Enc(U4(t)), w2 |-> Enc(U4(n)), body |-> body]
SdeEl(t, n, word) == [w1 |-> Enc(U4HiLo(n, t)), w2 |-> word, body |-> <<>>]
Fill(n, b) == [i \in 1..n |-> b]
NoEl == FullEl(miINT8, 0, <<>>)

\* what the uninitialised locals of read_into_int32s may hold
Garbage == {[mdtype |-> m, byte_count |-> n] : m \in {0, miINT32}, n \in {0, 4, 8}}
NoGarbage == [mdtype |-> 0, byte_count |-> 0]
GarbageFor(el, level) ==
    IF cread_tag(el.w1, el.w2, is_swapped).res # -1 THEN {NoGarbage}
    ELSE IF level = "top" THEN Garbage
    ELSE {[mdtype |-> miINT32, byte_count |-> 8]}

\* array flags: class code, then the logical (bit 9), global (bit 10) and
\* complex (bit 11) flags
FlagBits(mc, level) ==
    IF mc \in ContainerClasses THEN {0}
    ELSE IF level = "top" THEN {0, 512, 1024 + 2048}
    ELSE {0}
NzmaxWords == {Enc(U4(3))}

DimLists == {<<a>> : a \in 1..MaxLen}
            \cup {p \in (0..MaxLen) \X (1..MaxLen) : p[1] * p[2] <= MaxLen}
DimWords(dl) == [i \in 1..Len(dl) |-> Enc(U4(dl[i]))]
DimsEl(dl) == FullEl(miINT32, 4 * Len(dl), DimWords(dl))

\* dimensions elements: int32 lists in full format, one more than the
\* _MAT_MAXDIMS dimensions allowed, SDE forms, an SDE byte count of 5, and
\* elements of another type; fewer of them for containers and nested matrices
DimsElems(mc, level) ==
    IF level = "top" /\ mc \notin ContainerClasses
    THEN {DimsEl(dl) : dl \in DimLists}
         \cup {FullEl(miINT32, 4 * (_MAT_MAXDIMS + 1), Fill(_MAT_MAXDIMS + 1, Enc(U4(1))))}
         \cup {SdeEl(miINT32, 4, Enc(U4(1))), SdeEl(miINT32, 2, U4Zero),
               SdeEl(miINT32, 5, U4Zero)}
         \cup {FullEl(miINT8, 4, <<Enc(U4(1))>>), SdeEl(miINT8, 4, Enc(U4(1)))}
    ELSE IF level = "top"
    THEN {DimsEl(<<1, a>>) : a \in 0..MaxLen}
         \cup {SdeEl(miINT32, 5, U4Zero), FullEl(miUINT32, 4, <<Enc(U4(1))>>)}
    ELSE IF mc = mxUINT8_CLASS
    THEN {DimsEl(<<1, 1>>), SdeEl(miINT32, 5, U4Zero), FullEl(miINT8, 4, <<Enc(U4(1))>>)}
    ELSE {DimsEl(<<1, 1>>)}

NameElems(mc, level) ==
    IF level = "top" /\ mc \notin ContainerClasses
    THEN {NoEl, SdeEl(miINT8, 2, <<97, 98, 0, 0>>), SdeEl(miINT8, 5, U4Zero),
          FullEl(miUINT8, 1, <<97>>)}
    ELSE IF level = "top" THEN {NoEl, FullEl(miUINT8, 1, <<97>>)}
    ELSE {NoEl}

NestedClasses ==
    {mxCELL_CLASS, mxSTRUCT_CLASS, mxSPARSE_CLASS, mxUINT8_CLASS,
     mxFUNCTION_CLASS, mxOPAQUE_CLASS}
Classes(level) == IF level = "top" THEN 0..MaxClass ELSE NestedClasses

\* outer tags of nested matrices
MatrixTags ==
    {[w1 |-> Enc(U4(t)), w2 |-> Enc(U4(n))] :
        t \in {miMATRIX, miCOMPRESSED}, n \in {0, 8 * MaxByteCount}}

\* data elements of numeric arrays
NumElems(h, level) ==
    IF level = "top"
    THEN {FullEl(miUINT8, n, Fill(n, 7)) : n \in 0..MaxLen}
         \cup {SdeEl(miUINT8, 1, <<7, 0, 0, 0>>), SdeEl(miUINT8, 5, U4Zero),
               FullEl(miDOUBLE, 8, Fill(8, 0))}
    ELSE {FullEl(miUINT8, size_from_header(h), Fill(size_from_header(h), 7)),
          SdeEl(miUINT8, 5, U4Zero)}
ImagElems(h, level) ==
    IF h.is_complex = 0 THEN {NoEl}
    ELSE {FullEl(miUINT8, 1, <<7>>), SdeEl(miUINT8, 5, U4Zero)}

\* elements of a sparse matrix: an index array and the same with a bad tag
SparseElems(level) ==
    IF level = "top"
    THEN {FullEl(miINT32, 4, Fill(4, 0)), FullEl(miINT32, 0, <<>>),
          SdeEl(miINT32, 5, U4Zero)}
    ELSE {SdeEl(miINT32, 4, Enc(U4(0)))}

CharElems ==
    {FullEl(miUINT8, n, Fill(n, 97)) : n \in 0..MaxLen}
    \cup {FullEl(miUINT16, 2, <<97, 0>>), FullEl(miUTF8, 1, <<97>>),
          FullEl(miUTF32, 4, <<97, 0, 0, 0>>), FullEl(miDOUBLE, 8, Fill(8, 0)),
          SdeEl(miUINT8, 5, U4Zero)}

\* the elements after the header of a class read without nested matrices
LeafInputs(h, level) ==
    IF h.mclass \in NumericClasses
    THEN {<<re, im, NoEl, NoEl>> : re \in NumElems(h, level), im \in ImagElems(h, level)}
    ELSE IF h.mclass = mxSPARSE_CLASS
    THEN {<<r, p, d, j>> : r \in SparseElems(level), p \in SparseElems(level),
                           d \in {FullEl(miDOUBLE, 8, Fill(8, 0))},
                           j \in IF h.is_complex = 0 THEN {NoEl}
                                 ELSE {FullEl(miDOUBLE, 8, Fill(8, 0)),
                                       SdeEl(miDOUBLE, 5, U4Zero)}}
    ELSE IF h.mclass = mxCHAR_CLASS
    THEN {<<c, NoEl, NoEl, NoEl>> : c \in CharElems}
    ELSE {<<NoEl, NoEl, NoEl, NoEl>>}

\* what a build makes of the read of a local that was never assigned
Unbound == {None, "UnboundLocalError"}
UnboundFor(h) ==
    IF h.mclass \in NumericClasses \cup {mxSPARSE_CLASS, mxCHAR_CLASS, mxFUNCTION_CLASS}
    THEN {None} ELSE Unbound

\* the elements between the header of a struct or object and its values:
\* class name, field name length, field names.  Field names are distinct and
\* not empty.
StructInputs(h, level) ==
    {[cn |-> cn, nl |-> nl, fn |-> fn] :
        cn \in IF h.mclass # mxOBJECT_CLASS THEN {NoEl}
               ELSE {FullEl(miINT8, 3, <<99, 108, 115>>), FullEl(miUINT8, 1, <<99>>),
                     SdeEl(miINT8, 5, U4Zero)},
        nl \in IF level = "top" /\ h.mclass = mxSTRUCT_CLASS
               THEN {SdeEl(miINT32, 4, Enc(U4(2))), FullEl(miINT32, 4, <<Enc(U4(2))>>),
                     FullEl(miINT32, 8, <<Enc(U4(2)), Enc(U4(2))>>),
                     SdeEl(miINT32, 2, U4Zero), SdeEl(miINT32, 5, U4Zero),
                     SdeEl(miINT8, 4, Enc(U4(2)))}
               ELSE {SdeEl(miINT32, 4, Enc(U4(2)))},
        fn \in IF level = "top" /\ h.mclass = mxSTRUCT_CLASS
               THEN {NoEl, SdeEl(miINT8, 2, <<97, 0, 0, 0>>),
                     FullEl(miINT8, 4, <<97, 0, 98, 0>>),
                     FullEl(miUINT8, 2, <<97, 0>>), SdeEl(miINT8, 5, U4Zero)}
               ELSE {SdeEl(miINT8, 2, <<97, 0, 0, 0>>)}}

\* what the uninitialised namelength of read_struct may hold
NameLengthGarbage == {Enc(U4(2)), Enc(U4(4))}

----------------------------------------------------------------------------
(* Operations of the variable reader.                                      *)

Idle == stack = <<>>
Top == stack[Len(stack)]
Below == SubSeq(stack, 1, Len(stack) - 1)

RECURSIVE Remaining(_)
\* nested reads that the containers in progress still have to start
Remaining(stk) ==
    IF stk = <<>> THEN 0
    ELSE LET f == stk[Len(stk)]
         IN  f.length * f.n - Len(f.calls) - 1
             + Remaining(SubSeq(stk, 1, Len(stk) - 1))

EntryOp(entry) == IF entry = "top" THEN "array_from_header" ELSE "read_mi_matrix"

\* what is seen of a call of an entry point when it ends
Obs(entry, id, byte_count, h, outcome, mismatch, arr, mat_dtype, npe) ==
    [op |-> EntryOp(entry), entry |-> entry, id |-> id, byte_count |-> byte_count,
     mclass |-> h.mclass,
     logical |-> IF h = NoHeader THEN FALSE ELSE h.is_logical # 0,
     outcome |-> outcome, mismatch |-> mismatch,
     arr |-> arr, mat_dtype |-> mat_dtype, npe |-> npe]

Raised(entry, id, byte_count, h, outcome, mismatch) ==
    Obs(entry, id, byte_count, h, outcome, mismatch, NoArr, None, 0)

\* the end of a call: an exception unwinds every container read in
\* progress; a value goes to the caller, which for a nested read is the loop
\* of the container on top of rest
Return(obs, adv, fl, rest) ==
    /\ pos' = pos + adv
    /\ faults' = faults \cup fl
    /\ header' = NoHeader
    /\ last' = obs @@ [nbytes |-> adv]
    /\ stack' = IF obs.outcome # "ok" \/ rest = <<>> THEN <<>>
                ELSE [rest EXCEPT ![Len(rest)] = AddChild(@, obs.id)]

\* read_cells or the loops of read_struct start
Push(f, adv, fl, rest, mismatch) ==
    /\ f.id + Remaining(rest) + f.length * f.n <= MaxCalls
    /\ pos' = pos + adv
    /\ faults' = faults \cup fl
    /\ header' = NoHeader
    /\ last' = [op |-> "begin", kind |-> f.kind, id |-> f.id, nbytes |-> adv,
                mismatch |-> mismatch]
    /\ stack' = Append(rest, f)

Distinct(names) ==
    \A i, j \in 1..Len(names) : names[i] = names[j] => i = j

\* process_element on what read_array_mdtype returned
ProcessOutcomes(r, mclass) ==
    IF r.outcome # "ok" THEN {r.outcome}
    ELSE IF r.arr.kind = "None" /\ ~IsSparse(mclass) THEN {"ok", "AttributeError"}
    ELSE {"ok"}

\* read_mi_matrix is declared to return an ndarray: the value it returns is
\* tested for that type (None passes), and a sparse matrix is not one
ReturnTypeTest(entry, arr) ==
    IF entry = "nested" /\ arr.kind = "sparse" THEN "TypeError" ELSE "ok"

\* read_array_mdtype and what the entry point does with its result
Dispatch(h, entry, id, byte_count, adv0, f0, rest, level) ==
    IF h.mclass = mxCELL_CLASS
    THEN Push(Frame("cells", h, entry, id, <<>>), adv0, f0, rest, FALSE)
    ELSE IF h.mclass \in {mxSTRUCT_CLASS, mxOBJECT_CLASS}
    THEN \E inp \in StructInputs(h, level) :
         \E garbage \in GarbageFor(inp.nl, level) :
         \E mem0 \in (IF garbage = NoGarbage THEN {U4Zero} ELSE NameLengthGarbage) :
         \E r \in {read_struct_head(h, inp.cn, inp.nl, garbage, mem0, inp.fn,
                                     is_swapped, sys_is_le)} :
            IF r.outcome # "ok"
            THEN Return(Raised(entry, id, byte_count, h, r.outcome, r.mismatch)
                        @@ [namelength_written |-> r.written],
                        adv0 + r.adv, f0 \cup r.faults, rest)
            ELSE IF struct_as_record /\ ~Distinct(r.field_names)
            THEN Return(Raised(entry, id, byte_count, h, "ValueError", FALSE),
                        adv0 + r.adv, f0 \cup r.faults, rest)
            ELSE Push(Frame("struct", h, entry, id, r.field_names),
                      adv0 + r.adv, f0 \cup r.faults, rest, r.mismatch)
    ELSE \E els \in LeafInputs(h, level), unbound \in UnboundFor(h) :
         \E r \in {read_array_mdtype(h, els, unbound, is_swapped, sys_is_le)} :
         \E pe \in ProcessOutcomes(r, h.mclass) :
            IF pe # "ok"
            THEN Return(Raised(entry, id, byte_count, h, pe, FALSE),
                        adv0 + r.adv, f0 \cup r.faults, rest)
            ELSE IF ReturnTypeTest(entry, r.arr) # "ok"
            THEN Return(Obs(entry, id, byte_count, h, ReturnTypeTest(entry, r.arr),
                            FALSE, r.arr, r.mat_dtype, ProcessCalls(h.mclass)),
                        adv0 + r.adv, f0 \cup r.faults, rest)
            ELSE Return(Obs(entry, id, byte_count, h, "ok", FALSE, r.arr,
                            r.mat_dtype, ProcessCalls(h.mclass)),
                        adv0 + r.adv, f0 \cup r.faults, rest)

Consts == <<sys_is_le, is_swapped, struct_as_record, stream>>

read_full_tag_call ==
    /\ Idle
    /\ pos <= MaxStart
    /\ \E tag \in MatrixTags :
         \E r \in {cread_full_tag(tag.w1, tag.w2, is_swapped)} :
             last' = [op |-> "read_full_tag", outcome |-> "ok", start |-> pos,
                      mdtype |-> r.mdtype, byte_count |-> r.byte_count]
    /\ pos' = pos + 8
    /\ UNCHANGED <<Consts, header, stack, ncalls, faults>>

\* the caller has read the tag of the variable
read_header_call ==
    /\ Idle
    /\ last.op = "read_full_tag"
    /\ \E mc \in Classes("top") :
       \E f \in FlagBits(mc, "top"), nzmax_word \in NzmaxWords,
          dims_el \in DimsElems(mc, "top") :
       \E garbage \in GarbageFor(dims_el, "top") :
       \E d \in {read_into_int32s(dims_el, U4Zero, garbage, is_swapped)} :
       \E name_el \in (IF d.outcome = "ok" /\ d.n_ints <= _MAT_MAXDIMS
                       THEN NameElems(mc, "top") ELSE {NoEl}) :
       \E r \in {read_header(Enc(U4(mc + f)), nzmax_word, dims_el, garbage, name_el,
                              is_swapped, sys_is_le)} :
             /\ pos' = pos + r.adv
             /\ header' = IF r.outcome = "ok" THEN r.header ELSE NoHeader
             /\ faults' = r.faults
             /\ last' = [op |-> "read_header", outcome |-> r.outcome,
                         start |-> pos, mismatch |-> r.mismatch,
                         written |-> r.written]
    /\ UNCHANGED <<Consts, stack, ncalls>>

array_from_header_call ==
    /\ Idle
    /\ header # NoHeader
    /\ ncalls' = 0
    /\ Dispatch(header, "top", 0, -1, 0, {}, <<>>, "top")
    /\ UNCHANGED Consts

\* what a build makes of header.mclass when header was never assigned: an
\* exception, or the test of a value that is the sparse class code or not
UnsetHeader == {"UnboundLocalError", "sparse", "other"}

EmptyArr == [kind |-> "numeric", shape |-> <<1, 0>>]

\* the next nested read of the container on top of the stack
read_mi_matrix_call ==
    /\ ~Idle
    /\ ~FrameDone(Top)
    /\ ncalls' = ncalls + 1
    /\ \E tag \in MatrixTags :
       \E t \in {cread_full_tag(tag.w1, tag.w2, is_swapped)} :
         IF WrongType(t.mdtype, miMATRIX)
         THEN Return(Raised("nested", ncalls + 1, t.byte_count, NoHeader,
                            "TypeError", t.mdtype # miMATRIX), 8, {}, stack)
         ELSE IF t.byte_count = 0
         THEN \E u \in UnsetHeader :
                IF u = "UnboundLocalError"
                THEN Return(Raised("nested", ncalls + 1, 0, NoHeader, u, FALSE),
                            8, {}, stack)
                ELSE Return(Obs("nested", ncalls + 1, 0, NoHeader, "ok", FALSE,
                                EmptyArr, "f8", IF u = "sparse" THEN 0 ELSE 1),
                            8, {}, stack)
         ELSE \E mc \in Classes("nested") :
              \E f \in FlagBits(mc, "nested"), nzmax_word \in NzmaxWords,
                 dims_el \in DimsElems(mc, "nested"),
                 name_el \in NameElems(mc, "nested") :
              \E garbage \in GarbageFor(dims_el, "nested") :
              \E r \in {read_header(Enc(U4(mc + f)), nzmax_word, dims_el, garbage,
                                     name_el, is_swapped, sys_is_le)} :
                IF r.outcome # "ok"
                THEN Return(Raised("nested", ncalls + 1, t.byte_count, NoHeader,
                                   r.outcome, r.mismatch),
                            8 + r.adv, r.faults, stack)
                ELSE Dispatch(r.header, "nested", ncalls + 1, t.byte_count,
                              8 + r.adv, r.faults, stack, "nested")
    /\ UNCHANGED Consts

\* read_cells or read_struct returns, and with it the entry point that
\* called read_array_mdtype
container_return ==
    /\ ~Idle
    /\ FrameDone(Top)
    /\ \E f \in {Top} :
         Return([op |-> EntryOp(f.entry), entry |-> f.entry, id |-> f.id,
                 byte_count |-> -1, mclass |-> f.mclass, logical |-> FALSE,
                 outcome |-> "ok", mismatch |-> FALSE,
                 arr |-> [kind |-> f.kind, shape |-> f.dims, names |-> f.names,
                          calls |-> f.calls, inst |-> f.inst,
                          record |-> struct_as_record],
                 mat_dtype |-> None, npe |-> ProcessCalls(f.mclass)],
                0, {}, Below)
    /\ UNCHANGED <<Consts, ncalls>>

InitVar ==
    /\ sys_is_le = TRUE
    /\ is_swapped \in BOOLEAN
    /\ struct_as_record \in BOOLEAN
    /\ stream = <<>>
    /\ pos = 0
    /\ last = [op |-> "init"]
    /\ header = NoHeader
    /\ stack = <<>>
    /\ ncalls = 0
    /\ faults = {}

NextVar ==
    \/ read_full_tag_call
    \/ read_header_call
    \/ array_from_header_call
    \/ read_mi_matrix_call
    \/ container_return

SpecVar == InitVar /\ [][NextVar]_vars

----------------------------------------------------------------------------
(* The values of a real numeric matrix.  An ndarray is its shape and the   *)
(* value at each index (indices from 0).                                   *)

MaxDim == 3

Reverse(s) == [i \in 1..Len(s) |-> s[Len(s) + 1 - i]]

RECURSIVE Indices(_)
\* the indices of an array of a shape
Indices(shape) ==
    IF shape = <<>> THEN {<<>>}
    ELSE {<<i>> \o t : i \in 0..(shape[1] - 1), t \in Indices(Tail(shape))}

RECURSIVE CIndex(_, _)
\* place of an index in the buffer of a C-ordered array (last axis fastest)
CIndex(idx, shape) ==
    IF idx = <<>> THEN 0
    ELSE idx[1] * Product(Tail(shape)) + CIndex(Tail(idx), Tail(shape))

\* ndarray.reshape of a one-dimensional array
reshape(res, shape) ==
    [shape |-> shape,
     at |-> [idx \in Indices(shape) |-> res[CIndex(idx, shape) + 1]]]

\* ndarray.T: the axes reversed
transpose(a) ==
    [shape |-> Reverse(a.shape),
     at |-> [idx \in Indices(Reverse(a.shape)) |-> a.at[Reverse(idx)]]]

\* a reader that takes the stored values in row-major order
read_real_values_c_order(h, el, swapped, le) ==
    With(read_element(el.w1, el.w2, el.body, swapped, le), LAMBDA e :
        IF e.outcome # "ok"
        THEN [outcome |-> e.outcome, adv |-> e.adv]
        ELSE IF e.byte_count \div ItemSize(e.mdtype) # Product(h.dims)
        THEN [outcome |-> "ValueError", adv |-> e.adv]
        ELSE [outcome |-> "ok", adv |-> e.adv, arr |-> reshape(e.data, h.dims)])

\* read_real_complex on a header that is not complex, with the values kept:
\* read_numeric gives the element's el_count items (here of one byte each) as
\* a one-dimensional array, which is reshaped to the reversed dims and
\* transposed
read_real_values(h, el, swapped, le) ==
    With(read_element(el.w1, el.w2, el.body, swapped, le), LAMBDA e :
        IF e.outcome # "ok"
        THEN [outcome |-> e.outcome, adv |-> e.adv]
        ELSE IF e.byte_count \div ItemSize(e.mdtype) # Product(Reverse(h.dims))
        THEN [outcome |-> "ValueError", adv |-> e.adv]
        ELSE [outcome |-> "ok", adv |-> e.adv,
              arr |-> transpose(reshape(e.data, Reverse(h.dims)))])

RealHeader(dims) ==
    [name |-> <<>>, mclass |-> mxUINT8_CLASS, dims |-> dims, n_dims |-> Len(dims),
     is_complex |-> 0, is_logical |-> 0, is_global |-> 0, nzmax |-> U4Zero]

RealDims == {<<a>> : a \in 0..MaxDim} \cup ((0..MaxDim) \X (0..MaxDim))
            \cup {<<2, 1, 2>>}

\* the stored values of n items: 0, 1, 2, ... in stream order, the same
\* backwards, one value throughout, and an item too many
RealBodies(n) ==
    {[i \in 1..n |-> i - 1], [i \in 1..n |-> n - i], [i \in 1..n |-> 7],
     [i \in 1..(n + 1) |-> i - 1]}

read_real_complex_call ==
    /\ header # NoHeader
    /\ \E body \in RealBodies(size_from_header(header)) :
       \E t \in {miUINT8, miINT8} :
       \E r \in {read_real_values(header, FullEl(t, Len(body), body),
                                  is_swapped, sys_is_le)} :
          /\ pos' = pos + r.adv
          /\ last' = r @@ [op |-> "read_real_complex", dims |-> header.dims,
                           v |-> body]
    /\ header' = NoHeader
    /\ UNCHANGED <<Consts, stack, ncalls, faults>>

InitReal ==
    /\ sys_is_le = TRUE
    /\ is_swapped \in BOOLEAN
    /\ struct_as_record = TRUE
    /\ stream = <<>>
    /\ pos = 0
    /\ last = [op |-> "init"]
    /\ header \in {RealHeader(dims) : dims \in RealDims}
    /\ stack = <<>>
    /\ ncalls = 0
    /\ faults = {}

NextReal == read_real_complex_call

SpecReal == InitReal /\ [][NextReal]_vars

-----------------------------------------------------------------------------
(* read_sparse on stored index and value arrays.                           *)

MaxCols == 2
MaxNnz == 4
MaxTail == 6

Min(a, b) == IF a < b THEN a ELSE b

\* a[:k] of Python for k >= 0
Take(a, k) == SubSeq(a, 1, Min(k, Len(a)))

\* the items of an element as the byte-ordered dtype of its type gives them:
\* one-byte items, or 32-bit items in the byte order of the file
ItemValues(e, file_le) ==
    IF ItemSize(e.mdtype) = 4
    THEN [k \in 1..(e.byte_count \div 4) |->
             U4Val(LoadU4(SubSeq(e.data, 4 * k - 3, 4 * k), file_le))]
    ELSE SubSeq(e.data, 1, e.byte_count)

\* data + (data_j * 1j), with numpy's broadcasting of a single item
AddImag(data, data_j) ==
    IF Len(data) = Len(data_j)
    THEN [outcome |-> "ok", v |-> [i \in 1..Len(data) |-> <<data[i], data_j[i]>>]]
    ELSE IF Len(data_j) = 1
    THEN [outcome |-> "ok", v |-> [i \in 1..Len(data) |-> <<data[i], data_j[1]>>]]
    ELSE IF Len(data) = 1
    THEN [outcome |-> "ok", v |-> [i \in 1..Len(data_j) |-> <<data[1], data_j[i]>>]]
    ELSE [outcome |-> "ValueError"]

\* the arguments scipy.sparse.csc_matrix is constructed from
csc_matrix(data, rowind, indptr, shape) ==
    [format |-> "csc", shape |-> shape, data |-> data, indices |-> rowind,
     indptr |-> indptr]

\* the slices that drop the first stored entry instead of the tail
SparseSlices_keep_tail(rowind, indptr, data, M, N) ==
    IF Len(indptr) = 0 THEN [outcome |-> "IndexError"]
    ELSE With(Take(indptr, N + 1), LAMBDA ip :
         With(ip[Len(ip)], LAMBDA nnz :
            [outcome |-> "ok",
             arr |-> csc_matrix(SubSeq(data, Len(data) - Min(nnz, Len(data)) + 1,
                                       Len(data)),
                                Take(rowind, nnz), ip, <<M, N>>)]))

\* indptr[:N+1], nnz = indptr[-1], rowind[:nnz], data[:nnz]
SparseSlices(rowind, indptr, data, M, N) ==
    IF Len(indptr) = 0 THEN [outcome |-> "IndexError"]
    ELSE With(Take(indptr, N + 1), LAMBDA ip :
         With(ip[Len(ip)], LAMBDA nnz :
            [outcome |-> "ok",
             arr |-> csc_matrix(Take(data, nnz), Take(rowind, nnz), ip,
                                <<M, N>>)]))

\* read_sparse with the values of its elements: els is the elements in stream
\* order, the fourth read only for a complex matrix
read_sparse_values(h, els, swapped, le) ==
    With(le = ~swapped, LAMBDA file_le :
    With(read_element(els[1].w1, els[1].w2, els[1].body, swapped, le), LAMBDA e1 :
    With(read_element(els[2].w1, els[2].w2, els[2].body, swapped, le), LAMBDA e2 :
    With(read_element(els[3].w1, els[3].w2, els[3].body, swapped, le), LAMBDA e3 :
    With(read_element(els[4].w1, els[4].w2, els[4].body, swapped, le), LAMBDA e4 :
        IF e1.outcome # "ok" THEN [outcome |-> e1.outcome, adv |-> e1.adv]
        ELSE IF e2.outcome # "ok"
        THEN [outcome |-> e2.outcome, adv |-> e1.adv + e2.adv]
        ELSE IF e3.outcome # "ok"
        THEN [outcome |-> e3.outcome, adv |-> e1.adv + e2.adv + e3.adv]
        ELSE IF h.is_complex # 0 /\ e4.outcome # "ok"
        THEN [outcome |-> e4.outcome, adv |-> e1.adv + e2.adv + e3.adv + e4.adv]
        ELSE
        With(e1.adv + e2.adv + e3.adv
             + (IF h.is_complex # 0 THEN e4.adv ELSE 0), LAMBDA adv :
        With(IF h.is_complex # 0
             THEN AddImag(ItemValues(e3, file_le), ItemValues(e4, file_le))
             ELSE [outcome |-> "ok", v |-> ItemValues(e3, file_le)], LAMBDA data :
            IF data.outcome # "ok" THEN [outcome |-> data.outcome, adv |-> adv]
            ELSE IF Len(h.dims) # 2 THEN [outcome |-> "ValueError", adv |-> adv]
            ELSE SparseSlices(ItemValues(e1, file_le), ItemValues(e2, file_le),
                              data.v, h.dims[1], h.dims[2])
                 @@ [adv |-> adv])))))))

SparseHeader(dims, cx) ==
    [name |-> <<>>, mclass |-> mxSPARSE_CLASS, dims |-> dims, n_dims |-> Len(dims),
     is_complex |-> cx, is_logical |-> 0, is_global |-> 0, nzmax |-> U4Zero]

SparseDims == ((1..2) \X (0..MaxCols)) \cup {<<1, 1, 1>>}

\* column pointers: N + 1 of them starting at 0 and never decreasing, the same
\* followed by one more, and none at all
SparsePtrs(N) ==
    LET good == {p \in [1..(N + 1) -> 0..MaxNnz] :
                    /\ p[1] = 0
                    /\ \A i \in 1..N : p[i] <= p[i + 1]}
    IN  good \cup {Append(p, p[N + 1] + 1) : p \in good} \cup {<<>>}

\* the bytes of 32-bit items in the byte order of the file
I4Body(vals, file_le) ==
    [k \in 1..(4 * Len(vals)) |->
        StoreU4(U4(vals[((k - 1) \div 4) + 1]), file_le)[((k - 1) % 4) + 1]]

\* the number of entries the column pointers announce
StoredNnz(ptr, N) ==
    IF ptr = <<>> THEN 0 ELSE Take(ptr, N + 1)[Min(N + 1, Len(ptr))]

read_sparse_call ==
    /\ header # NoHeader
    /\ \E N \in {IF Len(header.dims) = 2 THEN header.dims[2] ELSE 1} :
       \E M \in {header.dims[1]} :
       \E ptr \in SparsePtrs(N) :
       \E nzmax \in {n \in {StoredNnz(ptr, N) + d : d \in {-1, 0, MaxTail}} :
                       n >= 0} :
       \E nimag \in IF header.is_complex # 0 THEN {nzmax, 1} ELSE {0} :
       \E rows \in {[i \in 1..nzmax |-> (i - 1) % M]} :
       \E vals \in {[i \in 1..nzmax |-> i]} :
       \E imag \in {[i \in 1..nimag |-> 10 + i]} :
       \E r \in {read_sparse_values(header,
                    <<FullEl(miINT32, 4 * nzmax, I4Body(rows, sys_is_le = ~is_swapped)),
                      FullEl(miINT32, 4 * Len(ptr), I4Body(ptr, sys_is_le = ~is_swapped)),
                      FullEl(miUINT8, nzmax, vals),
                      FullEl(miUINT8, nimag, imag)>>,
                    is_swapped, sys_is_le)} :
          /\ pos' = pos + r.adv
          /\ last' = r @@ [op |-> "read_sparse", dims |-> header.dims,
                           is_complex |-> header.is_complex,
                           rowind |-> rows, indptr |-> ptr, data |-> vals,
                           data_j |-> imag]
    /\ header' = NoHeader
    /\ UNCHANGED <<Consts, stack, ncalls, faults>>

InitSparse ==
    /\ sys_is_le \in BOOLEAN
    /\ is_swapped \in BOOLEAN
    /\ struct_as_record = TRUE
    /\ stream = <<>>
    /\ pos = 0
    /\ last = [op |-> "init"]
    /\ header \in {SparseHeader(dims, cx) : dims \in SparseDims, cx \in {0, 1}}
    /\ stack = <<>>
    /\ ncalls = 0
    /\ faults = {}

NextSparse == read_sparse_call

SpecSparse == InitSparse /\ [][NextSparse]_vars

-----------------------------------------------------------------------------
(* byteswap_u4 on its own.                                                 *)

\* the values each byte of the argument is drawn from
SwapBytes == {0, 1, 2, 127, 128, 255}
SwapWords == SwapBytes \X SwapBytes \X SwapBytes \X SwapBytes

byteswap_u4_call ==
    /\ last.op = "init"
    /\ \E u4 \in {last.u4} :
          last' = [op |-> "byteswap_u4", u4 |-> u4, res |-> byteswap_u4(u4),
                   twice |-> byteswap_u4(byteswap_u4(u4))]
    /\ UNCHANGED <<Consts, pos, header, stack, ncalls, faults>>

InitSwap ==
    /\ sys_is_le = TRUE
    /\ is_swapped = FALSE
    /\ struct_as_record = TRUE
    /\ stream = <<>>
    /\ pos = 0
    /\ last \in {[op |-> "init", u4 |-> u4] : u4 \in SwapWords}
    /\ header = NoHeader
    /\ stack = <<>>
    /\ ncalls = 0
    /\ faults = {}

NextSwap == byteswap_u4_call

SpecSwap == InitSwap /\ [][NextSwap]_vars

-----------------------------------------------------------------------------
(* read_header on any flags and nzmax words.                               *)

\* the values the bytes of the stored flags word are drawn from, lowest byte
\* first, and the stored nzmax words
FlagsWords == {0, 6, 14, 255} \X {0, 1, 2, 4, 8, 14, 16, 241, 255}
              \X {0, 255} \X {0, 128, 255}
AnyNzmaxWords == {U4Zero, <<3, 0, 0, 0>>, <<1, 2, 3, 4>>, <<255, 255, 255, 255>>}
\* the 8 bytes before the flags, as two words
SkippedWords == {<<U4(miUINT32), U4(8)>>, <<U4Zero, U4Zero>>,
                 <<Mask_ff0000, Mask_ff00>>}

\* a stored word as the machine loads it from the stream
Loaded(w) == IF is_swapped THEN <<w[4], w[3], w[2], w[1]>> ELSE w

read_header_flags_call ==
    /\ last.op = "init"
    /\ \E dl \in {<<1, 2>>, <<2>>} :
       \E name_el \in {FullEl(miINT8, 1, <<97>>), FullEl(miINT8, 0, <<>>)} :
       \E r \in {read_header(Loaded(last.flags), Loaded(last.nzmax_word),
                              DimsEl(dl), NoGarbage,
                              name_el, is_swapped, sys_is_le)} :
          /\ pos' = pos + r.adv
          /\ header' = IF r.outcome = "ok" THEN r.header ELSE NoHeader
          /\ faults' = r.faults
          /\ last' = [op |-> "read_header", outcome |-> r.outcome, start |-> pos,
                      mismatch |-> r.mismatch, written |-> r.written,
                      skipped |-> last.skipped, flags |-> last.flags,
                      nzmax_word |-> last.nzmax_word, dims |-> dl,
                      name_len |-> U4Val(Dec(name_el.w2, is_swapped))]
    /\ UNCHANGED <<Consts, stack, ncalls>>

InitFlags ==
    /\ sys_is_le = TRUE
    /\ is_swapped \in BOOLEAN
    /\ struct_as_record = TRUE
    /\ stream = <<>>
    /\ pos = 0
    /\ last \in {[op |-> "init", skipped |-> sk, flags |-> f, nzmax_word |-> z] :
                     sk \in SkippedWords, f \in FlagsWords, z \in AnyNzmaxWords}
    /\ header = NoHeader
    /\ stack = <<>>
    /\ ncalls = 0
    /\ faults = {}

NextFlags == read_header_flags_call

SpecFlags == InitFlags /\ [][NextFlags]_vars

----------------------------------------------------------------------------
(* Claims.                                                                 *)

\* byte order of the file: the machine's, unless the reader swaps
FileIsLE == (sys_is_le = ~is_swapped)
\* the 16-bit halves and the value of the word in four file bytes
FileHi16(b) == IF FileIsLE THEN b[3] + 256 * b[4] ELSE 256 * b[1] + b[2]
FileLo16(b) == IF FileIsLE THEN b[1] + 256 * b[2] ELSE 256 * b[3] + b[4]
FileU4Val(b) == FileLo16(b) + 65536 * FileHi16(b)

\* C1: read_tag takes a tag for SDE exactly when the high 16 bits of its first
\* word, in file byte order, are nonzero; then type_code is the low 16 bits,
\* byte_count the high 16 bits and the payload the first byte_count raw bytes
\* of the second word (a high half above 4 is the SDE error); otherwise
\* type_code is word 1, byte_count word 2, and there is no payload.
C1_TagClassification ==
    last.op = "read_tag" =>
        LET w1 == SubSeq(last.raw, 1, 4)
            w2 == SubSeq(last.raw, 5, 8)
        IN  IF FileHi16(w1) # 0
            THEN IF FileHi16(w1) <= 4
                 THEN /\ last.outcome = "ok"
                      /\ last.tag_res = 2
                      /\ last.mdtype = FileLo16(w1)
                      /\ last.byte_count = FileHi16(w1)
                      /\ last.tag_data = SubSeq(w2, 1, FileHi16(w1))
                 ELSE last.outcome = "ValueError"
            ELSE /\ last.outcome = "ok"
                 /\ last.tag_res = 1
                 /\ last.mdtype = FileLo16(w1)
                 /\ last.byte_count = FileU4Val(w2)
                 /\ last.tag_data = None

\* an SDE tag of a swapped file, with a payload of one byte, was read
C1_Witness ==
    /\ last.op = "read_tag"
    /\ is_swapped
    /\ last.outcome = "ok"
    /\ last.tag_res = 2
    /\ last.byte_count = 1
    /\ last.mdtype = 5
    /\ last.tag_data = <<4>>

\* C2 as stated: an element with an SDE byte-count field of 0, 1, 2, 3 or 4
\* is decoded by read_element from the tag alone, and a field of 5 raises.
C2_AsStated ==
    last.op = "read_element" =>
        /\ last.sde_field \in 0..4 =>
              /\ last.outcome = "ok"
              /\ last.tag_res = 2
              /\ last.nread = 0
        /\ last.sde_field = 5 => last.outcome = "ValueError"

\* C2, amended: a byte-count field of 1..4 is decoded by read_element from the
\* tag alone (the payload is the tag's last four bytes cut to byte_count, the
\* cursor moves past the tag only); a field of 0 is not SDE: the element is
\* read in full format, byte_count payload bytes coming from the stream; a
\* field of 5 or more raises ValueError.
C2_SdeBoundary ==
    last.op = "read_element" =>
        /\ last.sde_field \in 1..4 =>
              /\ last.outcome = "ok"
              /\ last.tag_res = 2
              /\ last.byte_count = last.sde_field
              /\ last.nread = 0
              /\ last.data = SubSeq(last.tag_bytes, 1, last.sde_field)
              /\ pos = last.start + 8
        /\ last.sde_field = 0 =>
              /\ last.outcome = "ok"
              /\ last.tag_res = 1
              /\ last.nread = last.byte_count
              /\ Len(last.data) = last.byte_count
        /\ last.sde_field >= 5 => last.outcome = "ValueError"

\* read_element decoded an SDE element of four bytes from the tag
C2_Witness ==
    /\ last.op = "read_element"
    /\ last.outcome = "ok"
    /\ last.tag_res = 2
    /\ last.byte_count = 4
    /\ last.data = <<1, 2, 3, 4>>
    /\ last.nread = 0

\* C3: read_element and read_element_into move the cursor by
\* 8 + byte_count + (8 - byte_count % 8) % 8 for a full-format element and by
\* 8 for an SDE element (also one refused for its byte count), so the cursor
\* stays on an 8-byte boundary.
C3_CursorAdvance ==
    /\ pos % 8 = 0
    /\ last.op \in {"read_element", "read_element_into"} =>
          IF last.outcome = "ok" /\ last.tag_res = 1
          THEN pos = last.start + 8 + last.byte_count
                                + ((8 - (last.byte_count % 8)) % 8)
          ELSE pos = last.start + 8

\* elements of 3 and then 5 bytes were read from position 0
C3_Witness ==
    /\ last.op \in {"read_element", "read_element_into"}
    /\ last.outcome = "ok"
    /\ last.tag_res = 1
    /\ last.prev = 3
    /\ last.byte_count = 5
    /\ pos = 32

\* the calls that hand a header or an array to their caller
Calls == {"read_header", "array_from_header", "read_mi_matrix"}
Entries == {"array_from_header", "read_mi_matrix"}
Returned == last.op \in Entries /\ last.outcome = "ok"

\* C4 as stated: read_mi_matrix on a matrix tag with byte_count 0 completes
\* and returns the empty (1, 0) float64 array, having consumed the 8 bytes of
\* the tag only.
C4_AsStated ==
    (faults = {} /\ last.op = "read_mi_matrix" /\ last.byte_count = 0
     /\ ~last.mismatch) =>
        /\ last.outcome = "ok"
        /\ last.arr = EmptyArr
        /\ last.mat_dtype = "f8"
        /\ last.nbytes = 8

\* C5 as stated: once an element with an SDE byte count above 4, a dimensions
\* element of more than 32 values or a field name length element of other
\* than one value was read for a variable, no call of the variable's read
\* returns a header or an array: each ends with an error.
C5_AsStated ==
    (faults # {} /\ last.op \in Calls) => last.outcome # "ok"

\* C6 as stated: what array_from_header and read_mi_matrix return, for any
\* class code of the header, is an array.
C6_AsStated ==
    (faults = {} /\ Returned) => last.arr.kind # "None"

\* C7 as stated: for a header of a numeric class the mat_dtype handed to
\* process_element is the bool dtype when is_logical is set and the dtype of
\* the class otherwise.
C7_AsStated ==
    (faults = {} /\ Returned /\ last.mclass \in NumericClasses) =>
        last.mat_dtype = IF last.logical THEN "bool" ELSE class_dtypes(last.mclass)

\* C8 as stated: an array decoded by array_from_header or read_mi_matrix is
\* returned, after one call of process_element if it is not sparse, and after
\* none if it is.
C8_AsStated ==
    (faults = {} /\ last.op \in Entries /\ last.arr.kind # "None") =>
        /\ last.outcome = "ok"
        /\ last.npe = IF last.arr.kind = "sparse" THEN 0 ELSE 1

\* C9: when the element at a position has a type other than the required one
\* (dimensions and field name length: miINT32; name, field names and class
\* name: miINT8; the tag read by read_mi_matrix: miMATRIX), the call ends with
\* TypeError, no header is kept and every read in progress is abandoned.
C9_TypeMismatch ==
    (last.op \in Calls \cup {"begin"} /\ last.mismatch) =>
        /\ last.op \in Calls
        /\ last.outcome = "TypeError"
        /\ header = NoHeader
        /\ stack = <<>>

\* the field names element of a top-level struct had another type than miINT8
C9_Witness ==
    /\ last.op = "array_from_header"
    /\ last.mclass = mxSTRUCT_CLASS
    /\ last.mismatch
    /\ last.outcome = "TypeError"
    /\ last.nbytes = 24
    /\ faults = {}

\* C10: a struct array with n >= 1 field names and L instances is returned
\* after exactly L * n nested reads, made one after the other, the read
\* number i * n + j (from 0) being bound to field name j of instance i, and
\* every instance has exactly the n field names; in both modes.
C10_StructOrder ==
    (Returned /\ last.arr.kind = "struct" /\ last.arr.names # <<>>) =>
        LET a == last.arr
            n == Len(a.names)
            L == Product(a.shape)
        IN  /\ Len(a.calls) = L * n
            /\ \A k \in 1..(L * n - 1) : a.calls[k] < a.calls[k + 1]
            /\ DOMAIN a.inst = 1..L
            /\ \A i \in 1..L :
                 /\ DOMAIN a.inst[i] = {a.names[j] : j \in 1..n}
                 /\ \A j \in 1..n : a.inst[i][a.names[j]] = a.calls[(i - 1) * n + j]

\* a struct of two instances and two field names was returned as records
C10_Witness ==
    /\ Returned
    /\ last.op = "array_from_header"
    /\ struct_as_record
    /\ last.arr.kind = "struct"
    /\ Len(last.arr.names) = 2
    /\ last.arr.shape = <<1, 2>>
    /\ Len(last.arr.calls) = 4

\* C11: for a real matrix of dims (R, C) the array read_real_complex returns
\* has shape (R, C), and its value at (row, col) is the stored value number
\* col * R + row (from 0).
C11_ColumnMajor ==
    (last.op = "read_real_complex" /\ last.outcome = "ok" /\ Len(last.dims) = 2) =>
        LET R == last.dims[1]
            C == last.dims[2]
        IN  /\ last.arr.shape = <<R, C>>
            /\ DOMAIN last.arr.at = (0..(R - 1)) \X (0..(C - 1))
            /\ \A row \in 0..(R - 1), col \in 0..(C - 1) :
                 last.arr.at[<<row, col>>] = last.v[col * R + row + 1]

\* the values 0..5 were read as a matrix of 2 rows and 3 columns
C11_Witness ==
    /\ last.op = "read_real_complex"
    /\ last.outcome = "ok"
    /\ last.dims = <<2, 3>>
    /\ last.v = <<0, 1, 2, 3, 4, 5>>
    /\ last.arr.at[<<1, 0>>] = 1
    /\ last.arr.at[<<0, 1>>] = 2
    /\ last.arr.at[<<1, 2>>] = 5

\* C12: read_sparse takes the first element for the row indices, the second
\* for the column pointers and the third for the values; it keeps the first
\* N + 1 column pointers (N = dims[1]), takes nnz to be the last one kept, and
\* builds the CSC structure of shape (dims[0], dims[1]) from the first nnz row
\* indices and the first nnz values, whatever is stored after them
C12_SparseTruncation ==
    (last.op = "read_sparse" /\ last.outcome = "ok") =>
        LET M == last.dims[1]
            N == last.dims[2]
            ip == Take(last.indptr, N + 1)
            nnz == ip[Len(ip)]
            values == IF last.is_complex = 0 THEN last.data
                      ELSE AddImag(last.data, last.data_j).v
        IN  /\ last.arr.shape = <<M, N>>
            /\ last.arr.indptr = ip
            /\ last.arr.indices = Take(last.rowind, nnz)
            /\ last.arr.data = Take(values, nnz)
            /\ (nnz <= Len(last.rowind) =>
                  Len(last.arr.indices) = nnz /\ Len(last.arr.data) = nnz)

\* ten entries were stored and the last column pointer is 4: four values and
\* four row indices came out
C12_Witness ==
    /\ last.op = "read_sparse"
    /\ last.outcome = "ok"
    /\ last.is_complex = 0
    /\ Len(last.rowind) = 10
    /\ last.indptr = <<0, 2, 4>>
    /\ last.arr.data = <<1, 2, 3, 4>>
    /\ last.arr.indices = <<0, 1, 0, 1>>
    /\ last.arr.shape = <<2, 2>>

\* C13: byteswap_u4 returns the four bytes of its 32-bit argument in reverse
\* order, nothing carried beyond 32 bits, and applying it twice gives the
\* argument back
C13_ByteswapInvolution ==
    last.op = "byteswap_u4" =>
        /\ last.res = <<last.u4[4], last.u4[3], last.u4[2], last.u4[1]>>
        /\ \A i \in 1..4 : last.res[i] \in 0..255
        /\ last.twice = last.u4

\* 0x80FF0102 was swapped to 0x0201FF80
C13_Witness ==
    /\ last.op = "byteswap_u4"
    /\ last.u4 = <<2, 1, 255, 128>>
    /\ last.res = <<128, 255, 1, 2>>
    /\ last.twice = last.u4

\* C14: read_header passes over 8 bytes and decodes the 8 bytes after them
\* (byte-swapped when is_swapped) so that the class code is bits 0-7 of the
\* flags word, is_logical is bit 9, is_global bit 10, is_complex bit 11, and
\* nzmax is the second word; the rest of the header comes from the
\* dimensions and name elements, so no other bit of the flags word and none
\* of the 8 bytes passed over has any influence
C14_FlagsDecoding ==
    (last.op = "read_header" /\ last.outcome = "ok") =>
        LET f == last.flags
        IN  /\ header.mclass = f[1]
            /\ header.is_logical = (f[2] \div 2) % 2
            /\ header.is_global = (f[2] \div 4) % 2
            /\ header.is_complex = (f[2] \div 8) % 2
            /\ header.nzmax = last.nzmax_word
            /\ header.dims = last.dims
            /\ header.n_dims = Len(last.dims)
            /\ Len(header.name) = last.name_len
            /\ DOMAIN header = {"name", "mclass", "dims", "n_dims", "is_complex",
                                "is_logical", "is_global", "nzmax"}
            /\ pos = last.start + 16 + (8 + 4 * Len(last.dims) + Pad(4 * Len(last.dims)))
                     + (8 + last.name_len + Pad(last.name_len))

\* the flags word 0x80FFF10E of a byte-swapped stream: class 14, not logical,
\* not global, not complex, whatever the other bits are
C14_Witness ==
    /\ last.op = "read_header"
    /\ last.outcome = "ok"
    /\ is_swapped
    /\ last.flags = <<14, 241, 255, 128>>
    /\ last.nzmax_word = <<1, 2, 3, 4>>
    /\ header.mclass = 14
    /\ header.is_logical = 0
    /\ header.is_global = 0
    /\ header.is_complex = 0
    /\ header.nzmax = <<1, 2, 3, 4>>

\* C15: through any sequence of tag reads, header reads, array reads and
\* nested matrix reads, on any input, the stream cursor never moves back: each
\* operation moves it by the bytes it reads and by the forward seeks to the
\* next 8-byte boundary
C15_CursorMonotone == [][pos' >= pos]_vars

\* a nested matrix was read inside a container and the cursor stands beyond
\* the container's own header
C15_Witness ==
    /\ last.op = "read_mi_matrix"
    /\ last.outcome = "ok"
    /\ last.nbytes > 8
    /\ ncalls >= 2
    /\ faults = {}
    /\ pos > 64

\* C16 as stated: what read_into_int32s stores at the destination it is given
\* stays within the destination: at most 32 int32 values (128 bytes) in the
\* dims buffer of the header, at most one int32 (4 bytes) in the field name
\* length of read_struct, the count tests coming before any store beyond that.
C16_AsStated ==
    /\ last.op = "read_header" => last.written <= 4 * _MAT_MAXDIMS
    /\ "namelength_written" \in DOMAIN last => last.namelength_written <= 4

====
